---- MODULE Spec2Model ----
(***************************************************************************)
(* static_factory<BaseType, KeyType> (include/static_factory.hpp): a       *)
(* process-wide registry of producers, partitioned by result shape and     *)
(* argument signature, guarded by one mutex.                               *)
(***************************************************************************)
EXTENDS Naturals, Sequences, FiniteSets, TLC

\* Number of registration calls explored in one behaviour.
MaxRegs == 3

-----------------------------------------------------------------------------
(* The compile-time axes of one static_factory instantiation.              *)

\* RetType of g_registry<RetType, Args...>: base_type, base_type*,
\* std::shared_ptr<base_type>, std::unique_ptr<base_type>.
Shapes == {"Value", "RawHandle", "SharedOwnership", "UniqueOwnership"}

OwnershipShapes == {"RawHandle", "SharedOwnership", "UniqueOwnership"}

\* Argument lists as the callers write them; "int&" is an lvalue argument
\* deduced by a forwarding reference.
ArgLists == {<<>>, <<"int&">>}

\* std::decay_t on one argument type.
decay_t(a) == IF a = "int&" THEN "int" ELSE a

\* The argument lists after decay: the Args... of g_registry.
Signatures == {<<>>, <<"int">>}

\* Values of key_type used as explicit keys.
Keys == {1, 2}

\* The concrete types registered through register_type.
ConcreteTypes == {"ConcreteClassA", "ConcreteClassB", "Thrower", "Sliced"}

\* typeid(ConcreteType).hash_code()
hash_code(T) ==
  CASE T = "ConcreteClassA" -> 3
    [] T = "ConcreteClassB" -> 4
    [] T = "Thrower" -> 5
    [] T = "Sliced" -> 7

\* Every size_t value the model meets: explicit keys and type identities.
Ids == Keys \cup {hash_code(T) : T \in ConcreteTypes}

\* std::is_convertible_v<ConcreteType, base_type>
is_convertible_v(T) == T \in {"Sliced"}

\* std::is_base_of_v<base_type, ConcreteType>
is_base_of_v(T) == T \in {"ConcreteClassA", "ConcreteClassB", "Thrower", "Sliced"}

\* detail::is_related_v<base_type, T>
is_related_v(T) == is_base_of_v(T) \/ is_convertible_v(T)

\* The argument lists ConcreteType(std::forward<Args>(args)...) compiles for.
CtorSigs(T) == IF T = "Sliced" THEN {<<"int">>} ELSE {<<>>}

\* What the constructor of T does when run.
CtorOutcome(T) == IF T = "Thrower" THEN "throw" ELSE "ok"

\* The callables handed to register_function: the deduced ReturnType (by
\* kind), the deduced Args and what a call does.
Callables ==
  { [tag |-> "my_cat", ret |-> "value", sig |-> <<>>, out |-> "ok"],
    [tag |-> "bad_cat", ret |-> "value", sig |-> <<>>, out |-> "throw"],
    [tag |-> "raw_fn", ret |-> "raw_ptr", sig |-> <<>>, out |-> "null"],
    [tag |-> "shared_fn", ret |-> "shared_ptr", sig |-> <<>>, out |-> "ok"],
    [tag |-> "unique_fn", ret |-> "unique_ptr", sig |-> <<>>, out |-> "ok"] }

\* Two more: a callable that takes an int, and one whose ReturnType is a
\* subclass of base_type with a conversion operator to base_type*, which
\* here yields a null pointer.
AllCallables ==
  Callables \cup
  { [tag |-> "named_cat", ret |-> "value", sig |-> <<"int">>, out |-> "ok"],
    [tag |-> "null_handle", ret |-> "subclass_to_ptr", sig |-> <<>>, out |-> "null"] }

\* A callable whose body calls a member function of the same static_factory.
ReentrantCallables ==
  { [tag |-> "reentrant_cat", ret |-> "value", sig |-> <<>>, out |-> "reenter"] }

-----------------------------------------------------------------------------
VARIABLES
  g_registry,            \* g_registry<RetType, Args...>: [shape, sig] -> m_data
  g_mutex,               \* owner of g_mutex, or "free"
  hash_impl,             \* which std::hash<key_type> the build links
  key_type,              \* KeyType of the instantiation, by width
  relock_impl,           \* what std::mutex::lock does for the owning thread
  default_constructible, \* std::is_default_constructible_v<base_type>
  registered,            \* history: the latest producer registered per partition and id
  nregs,                 \* registration calls made so far
  last,                  \* the call that has just returned, and what it returned
  threads                \* per thread: where it is in the call it is making

vars ==
  <<g_registry, g_mutex, hash_impl, key_type, relock_impl, default_constructible,
    registered, nregs, last, threads>>

\* std::hash<key_type>: the identity for integral keys in libstdc++ and
\* libc++, a byte-mixing function in other standard libraries.
g_hash_function(key) == IF hash_impl = "identity" THEN key ELSE key + 10

\* The implicit conversion of typeid(ConcreteType).hash_code(), a size_t,
\* to const key_type& in the call register_type<ConcreteType, Args...>(...)
\* of the keyless register_type: a key_type narrower than size_t keeps the
\* low bits.
key_type_of(hash) == IF key_type = "size_t" THEN hash ELSE hash % 4

\* Every numeric id a partition can hold.
AllIds == LET keys == Ids \cup {h % 4 : h \in Ids} IN keys \cup {k + 10 : k \in keys}

Partitions == Shapes \X Signatures

\* A bug get_registry could have: one map per signature, whatever RetType.
get_registry_one_shape(RetType, Args) ==
  <<"Value", [i \in DOMAIN Args |-> decay_t(Args[i])]>>

\* A bug get_registry could have: one map per RetType, whatever Args.
get_registry_any_signature(RetType, Args) == <<RetType, << >>>>

\* get_registry<RetType, Args...>(): the partition of the decayed Args.
get_registry(RetType, Args) == <<RetType, [i \in DOMAIN Args |-> decay_t(Args[i])]>>

\* A default-constructed std::function (value_type()).
EmptyFunction == [tag |-> "", ret |-> "", out |-> "empty"]

-----------------------------------------------------------------------------
(* detail::unordered_flat_map: m_data is a vector of (first, second).      *)

\* find: the position of the first pair whose first is key; end() is
\* Len(m_data) + 1.
find(m_data, key) ==
  IF \E i \in 1..Len(m_data) : m_data[i].first = key
  THEN CHOOSE i \in 1..Len(m_data) :
         /\ m_data[i].first = key
         /\ \A j \in 1..(i - 1) : m_data[j].first # key
  ELSE Len(m_data) + 1

end(m_data) == Len(m_data) + 1

\* A bug operator[] could have: it appends without searching for the key.
operator_subscript_appending(m_data, key) ==
  [m_data |-> Append(m_data, [first |-> key, second |-> EmptyFunction]),
   pos |-> Len(m_data) + 1]

\* A bug operator[] could have: for a key it finds it returns
\* m_data.back().second, as the branch that appends does.
operator_subscript_back(m_data, key) ==
  IF find(m_data, key) = Len(m_data) + 1
  THEN [m_data |-> Append(m_data, [first |-> key, second |-> EmptyFunction]),
        pos |-> Len(m_data) + 1]
  ELSE [m_data |-> m_data, pos |-> Len(m_data)]

\* A bug operator[] could have: it erases the pair it finds and appends a
\* new one, so a key that is assigned again moves to the back.
operator_subscript_reinserting(m_data, key) ==
  LET it == find(m_data, key)
      kept == SelectSeq(m_data, LAMBDA e : e.first # key) IN
  [m_data |-> Append(kept, [first |-> key, second |-> EmptyFunction]),
   pos |-> Len(kept) + 1]

\* operator[]: the vector afterwards and the position of the reference it
\* returns.
operator_subscript(m_data, key) ==
  LET it == find(m_data, key) IN
  IF it = end(m_data)
  THEN [m_data |-> Append(m_data, [first |-> key, second |-> EmptyFunction]),
        pos |-> Len(m_data) + 1]
  ELSE [m_data |-> m_data, pos |-> it]

\* map[hash] = func: operator[] followed by the assignment through the
\* returned reference.
assign(m_data, key, func) ==
  LET r == operator_subscript(m_data, key) IN
  [r.m_data EXCEPT ![r.pos].second = func]

-----------------------------------------------------------------------------
(* Calling a stored std::function.                                         *)

\* The outcome of func(args...): an object built by the producer, a null
\* handle, or an exception leaving the call; "reenters" when the producer's
\* body has reached a call into the registry and has not returned yet.
Invoke(func) ==
  CASE func.out = "ok" -> [kind |-> "object", by |-> func.tag]
    [] func.out = "null" -> [kind |-> "nullptr", by |-> ""]
    [] func.out = "throw" -> [kind |-> "ProducerFailure", by |-> func.tag]
    [] func.out = "empty" -> [kind |-> "bad_function_call", by |-> ""]
    [] func.out = "reenter" -> [kind |-> "reenters", by |-> func.tag]

Raised(outcome) == outcome.kind \in {"ProducerFailure", "bad_function_call"}

\* throw std::runtime_error("Registry not found")
RegistryMiss == [kind |-> "RegistryMiss", by |-> ""]

\* throw std::runtime_error("no valid registery is found")
NoRegistryAvailable == [kind |-> "NoRegistryAvailable", by |-> ""]

-----------------------------------------------------------------------------
(* The public static member functions, by name.                            *)

MakeOps == {"make", "make_ptr", "make_shared", "make_unique"}

TryOps == {"try_make", "try_make_ptr", "try_make_shared", "try_make_unique"}

RegisterOps == {"register_type", "register_function"}

\* The RetType of the partition a make* or try_make* reads.
ShapeOf(op) ==
  CASE op \in {"make", "try_make"} -> "Value"
    [] op \in {"make_ptr", "try_make_ptr"} -> "RawHandle"
    [] op \in {"make_shared", "try_make_shared"} -> "SharedOwnership"
    [] op \in {"make_unique", "try_make_unique"} -> "UniqueOwnership"

\* The kind of result the std::function of a partition returns.
RetOf(shape) ==
  CASE shape = "Value" -> "value"
    [] shape = "RawHandle" -> "raw_ptr"
    [] shape = "SharedOwnership" -> "shared_ptr"
    [] shape = "UniqueOwnership" -> "unique_ptr"

-----------------------------------------------------------------------------
(* Registration: which partitions a call writes, in the order it writes.   *)

\* A producer register_type synthesizes: a lambda that runs ConcreteType's
\* constructor and returns ret: the object itself ("value"), or the result
\* of new ("raw_ptr"), make_shared ("shared_ptr"), make_unique ("unique_ptr").
Constructor(T, ret) == [tag |-> T, ret |-> ret, out |-> CtorOutcome(T)]

\* A bug register_type could have: the subclass branch fills the raw
\* pointer partition only.
register_type_writes_raw_only(T, Args) ==
  IF is_convertible_v(T)
  THEN << [part |-> get_registry("Value", Args), func |-> Constructor(T, "value")] >>
  ELSE << [part |-> get_registry("RawHandle", Args),
           func |-> Constructor(T, "raw_ptr")] >>

\* register_type<ConcreteType, Args...>: the if constexpr chain.
register_type_writes(T, Args) ==
  IF is_convertible_v(T)
  THEN << [part |-> get_registry("Value", Args), func |-> Constructor(T, "value")] >>
  ELSE IF is_base_of_v(T)
  THEN << [part |-> get_registry("RawHandle", Args),
           func |-> Constructor(T, "raw_ptr")],
          [part |-> get_registry("SharedOwnership", Args),
           func |-> Constructor(T, "shared_ptr")],
          [part |-> get_registry("UniqueOwnership", Args),
           func |-> Constructor(T, "unique_ptr")] >>
  ELSE << >>

\* The relations of a callable's ReturnType to base_type, by kind of type:
\* a value type converts to base_type, a pointer or smart pointer is neither
\* a subclass of base_type nor convertible to it, and a subclass of an
\* abstract base_type does not convert to base_type.
ret_is_convertible_v(ret) == ret = "value"

ret_is_base_of_v(ret) == ret = "subclass_to_ptr"

\* std::is_convertible_v<ReturnType, base_type*>
ret_is_convertible_to_ptr_v(ret) == ret \in {"raw_ptr", "subclass_to_ptr"}

\* static_assert(detail::is_related_v<base_type, ReturnType>) of
\* register_function_impl: a callable that fails it does not compile.
function_is_related_v(ret) == ret_is_base_of_v(ret) \/ ret_is_convertible_v(ret)

\* The std::function<RetType(Args...)> of a partition of the shape that
\* std::move(func) is assigned to: it returns func's result converted to
\* RetType.
Stored(F, shape) == [tag |-> F.tag, ret |-> RetOf(shape), out |-> F.out]

\* A bug register_function_impl could have: a ReturnType that is not a
\* value is stored in the three ownership partitions, as register_type does
\* for a subclass.
register_function_writes_multiplexed(F) ==
  IF ret_is_convertible_v(F.ret)
  THEN << [part |-> get_registry("Value", F.sig), func |-> Stored(F, "Value")] >>
  ELSE << [part |-> get_registry("RawHandle", F.sig), func |-> Stored(F, "RawHandle")],
          [part |-> get_registry("SharedOwnership", F.sig),
           func |-> Stored(F, "SharedOwnership")],
          [part |-> get_registry("UniqueOwnership", F.sig),
           func |-> Stored(F, "UniqueOwnership")] >>

\* register_function_impl: the if constexpr chain over ReturnType.
register_function_writes(F) ==
  IF ret_is_convertible_v(F.ret)
  THEN << [part |-> get_registry("Value", F.sig), func |-> Stored(F, "Value")] >>
  ELSE IF ret_is_convertible_to_ptr_v(F.ret)
  THEN << [part |-> get_registry("RawHandle", F.sig), func |-> Stored(F, "RawHandle")] >>
  ELSE IF F.ret = "shared_ptr"
  THEN << [part |-> get_registry("SharedOwnership", F.sig),
           func |-> Stored(F, "SharedOwnership")] >>
  ELSE IF F.ret = "unique_ptr"
  THEN << [part |-> get_registry("UniqueOwnership", F.sig),
           func |-> Stored(F, "UniqueOwnership")] >>
  ELSE << >>

\* One write: get_registry<...>()[hash] = func.
write(reg, hash, w) == [reg EXCEPT ![w.part] = assign(reg[w.part], hash, w.func)]

\* All the writes of one registration call, in order.
RECURSIVE apply_writes(_, _, _)
apply_writes(reg, hash, ws) ==
  IF ws = << >> THEN reg
  ELSE apply_writes(write(reg, hash, Head(ws)), hash, Tail(ws))

\* The history of registrations, kept beside the registry. Per partition:
\* order, the ids in the order of their first registration; latest, per id,
\* the producer of the latest registration.
NoHistory == [order |-> << >>, latest |-> << >>]

\* The position of id in order, 0 if it is not there.
Position(order, id) ==
  IF \E i \in 1..Len(order) : order[i] = id
  THEN CHOOSE i \in 1..Len(order) : order[i] = id
  ELSE 0

record_write(h, hash, func) ==
  LET i == Position(h.order, hash) IN
  IF i = 0
  THEN [order |-> Append(h.order, hash), latest |-> Append(h.latest, func)]
  ELSE [order |-> h.order, latest |-> [h.latest EXCEPT ![i] = func]]

RECURSIVE record_writes(_, _, _)
record_writes(hist, hash, ws) ==
  IF ws = << >> THEN hist
  ELSE record_writes(
         [hist EXCEPT ![Head(ws).part] = record_write(@, hash, Head(ws).func)],
         hash, Tail(ws))

-----------------------------------------------------------------------------
(* Instantiation: lookup and invocation.                                   *)

\* What a call reports: the positions of the entries it invoked, in order,
\* its result, and the position of the entry the result came from.
Report(calls, res, src) == [calls |-> calls, res |-> res, src |-> src]

\* A bug the lookup could have: operator[] in place of find, which inserts
\* an empty std::function for a missing id.
lookup_by_subscript(m_data, hash) ==
  LET r == operator_subscript(m_data, hash) IN [m_data |-> r.m_data, it |-> r.pos]

\* get_registry<...>().find(hash): the iterator, and the vector as the
\* lookup leaves it.
lookup(m_data, hash) == [m_data |-> m_data, it |-> find(m_data, hash)]

\* A bug the direct calls could have: a catch that turns a producer's
\* failure into "Registry not found".
lookup_and_call_catching(m_data, hash) ==
  LET l == lookup(m_data, hash) IN
  IF l.it = end(l.m_data) \/ Raised(Invoke(l.m_data[l.it].second))
  THEN [calls |-> IF l.it = end(l.m_data) THEN << >> ELSE <<l.it>>,
        res |-> RegistryMiss, src |-> 0, m_data |-> l.m_data]
  ELSE [calls |-> <<l.it>>, res |-> Invoke(l.m_data[l.it].second), src |-> l.it,
        m_data |-> l.m_data]

\* make / make_ptr / make_shared / make_unique after the id is resolved:
\* find, the end() test, the call. The report carries the vector as the
\* call leaves it.
lookup_and_call(m_data, hash) ==
  LET l == lookup(m_data, hash) IN
  IF l.it = end(l.m_data)
  THEN [calls |-> << >>, res |-> RegistryMiss, src |-> 0, m_data |-> l.m_data]
  ELSE [calls |-> <<l.it>>, res |-> Invoke(l.m_data[l.it].second), src |-> l.it,
        m_data |-> l.m_data]

\* static_cast<ConcreteType*> (static_pointer_cast, release and cast) of
\* the handle a producer returned: defined only when the object is a T.
static_cast(T, r) ==
  IF r.res.kind = "object" /\ r.res.by # T
  THEN [r EXCEPT !.res = [kind |-> "undefined_cast", by |-> r.res.by]]
  ELSE r

\* The for loop of try_make from position i on, eptr being the exception
\* kept so far (NoException when none) and where it came from.
NoException == [kind |-> "none", by |-> ""]

\* A bug the loop could have: it keeps the first exception, not the last.
RECURSIVE try_make_loop_first_exception(_, _, _, _, _)
try_make_loop_first_exception(m_data, i, calls, eptr, at) ==
  IF i > Len(m_data)
  THEN Report(calls, eptr, at)
  ELSE LET r == Invoke(m_data[i].second) IN
       IF Raised(r)
       THEN IF eptr.kind = "none"
            THEN try_make_loop_first_exception(m_data, i + 1, Append(calls, i), r, i)
            ELSE try_make_loop_first_exception(m_data, i + 1, Append(calls, i), eptr, at)
       ELSE Report(Append(calls, i), r, i)

\* A bug the loop could have: it stores a success and goes on, so the last
\* producer that succeeds wins.
RECURSIVE try_make_loop_no_return(_, _, _, _, _)
try_make_loop_no_return(m_data, i, calls, eptr, at) ==
  IF i > Len(m_data)
  THEN Report(calls, eptr, at)
  ELSE try_make_loop_no_return(m_data, i + 1, Append(calls, i),
                               Invoke(m_data[i].second), i)

RECURSIVE try_make_loop(_, _, _, _, _)
try_make_loop(m_data, i, calls, eptr, at) ==
  IF i > Len(m_data)
  THEN Report(calls, eptr, at)
  ELSE LET r == Invoke(m_data[i].second) IN
       IF Raised(r)
       THEN try_make_loop(m_data, i + 1, Append(calls, i), r, i)
       ELSE Report(Append(calls, i), r, i)

\* A bug the loop over handles could have: no test of the handle, so a
\* null handle is returned as the loop of try_make returns a value.
try_make_ptr_loop_null_returns(m_data, i, calls, eptr, at) ==
  try_make_loop(m_data, i, calls, eptr, at)

\* A bug the loop over handles could have: a producer that returns null
\* clears the exception kept so far.
RECURSIVE try_make_ptr_loop_null_clears(_, _, _, _, _)
try_make_ptr_loop_null_clears(m_data, i, calls, eptr, at) ==
  IF i > Len(m_data)
  THEN Report(calls, eptr, at)
  ELSE LET r == Invoke(m_data[i].second) IN
       IF Raised(r)
       THEN try_make_ptr_loop_null_clears(m_data, i + 1, Append(calls, i), r, i)
       ELSE IF r.kind = "object"
       THEN Report(Append(calls, i), r, i)
       ELSE try_make_ptr_loop_null_clears(m_data, i + 1, Append(calls, i), NoException, 0)

\* The for loop of try_make_ptr / try_make_shared / try_make_unique: a
\* producer's handle is returned only if it is not null.
RECURSIVE try_make_ptr_loop(_, _, _, _, _)
try_make_ptr_loop(m_data, i, calls, eptr, at) ==
  IF i > Len(m_data)
  THEN Report(calls, eptr, at)
  ELSE LET r == Invoke(m_data[i].second) IN
       IF Raised(r)
       THEN try_make_ptr_loop(m_data, i + 1, Append(calls, i), r, i)
       ELSE IF r.kind = "object"
       THEN Report(Append(calls, i), r, i)
       ELSE try_make_ptr_loop(m_data, i + 1, Append(calls, i), eptr, at)

\* A bug the fallback could have: no is_default_constructible_v test, the
\* runtime_error whenever nothing was returned or raised.
try_make_result_no_default(m_data) ==
  LET r == try_make_loop(m_data, 1, << >>, NoException, 0) IN
  IF r.res.kind # "none" THEN r
  ELSE Report(r.calls, NoRegistryAvailable, 0)

\* After the loop of try_make: rethrow, or base_type(), or the
\* runtime_error.
try_make_result(m_data) ==
  LET r == try_make_loop(m_data, 1, << >>, NoException, 0) IN
  IF r.res.kind # "none" THEN r
  ELSE IF default_constructible
  THEN Report(r.calls, [kind |-> "default", by |-> ""], 0)
  ELSE Report(r.calls, NoRegistryAvailable, 0)

\* After the loop of try_make_ptr / _shared / _unique: rethrow or nullptr.
try_make_ptr_result(m_data) ==
  LET r == try_make_ptr_loop(m_data, 1, << >>, NoException, 0) IN
  IF r.res.kind # "none" THEN r
  ELSE Report(r.calls, [kind |-> "nullptr", by |-> ""], 0)

-----------------------------------------------------------------------------
(* The state after static initialization.                                  *)

Void == [kind |-> "void", by |-> ""]

\* The record of a call that has returned.
Returned(op, by, part, id, T, r) ==
  [op |-> op, by |-> by, part |-> part, id |-> id, T |-> T,
   calls |-> r.calls, res |-> r.res, src |-> r.src]

\* No call has returned a result the caller still holds.
NoCall == Returned("", "", <<"Value", << >>>>, 0, "", Report(<< >>, Void, 0))

\* The threads that call into the registry concurrently.
Threads == {"t1", "t2"}

\* The calls a thread makes: the key is 0 where the call takes none.
Call(op, by, key, T, Args) == [op |-> op, by |-> by, key |-> key, T |-> T, Args |-> Args]

ThreadCalls ==
  { Call("register_type", "key", 1, "ConcreteClassA", << >>),
    Call("register_type", "key", 1, "ConcreteClassB", << >>),
    Call("register_type", "key", 1, "Thrower", << >>),
    Call("register_type", "key", 1, "Sliced", <<"int">>),
    Call("register_function", "key", 1, "bad_cat", << >>),
    Call("make", "key", 1, "", << >>),
    Call("make_ptr", "key", 1, "", << >>),
    Call("make_shared", "key", 1, "", << >>),
    Call("make_unique", "key", 1, "", << >>),
    Call("try_make", "all", 0, "", << >>),
    Call("try_make_unique", "all", 0, "", << >>) }

\* The calls threads make where a producer re-enters the registry.
ReentryCalls ==
  { Call("register_function", "key", 1, "my_cat", << >>),
    Call("register_function", "key", 2, "reentrant_cat", << >>),
    Call("register_type", "key", 1, "ConcreteClassA", << >>),
    Call("make", "key", 1, "", << >>),
    Call("make", "key", 2, "", << >>),
    Call("make_ptr", "key", 1, "", << >>) }

\* The calls the body of a re-entrant producer makes.
InnerCalls ==
  { Call("make", "key", 1, "", << >>),
    Call("register_type", "key", 1, "ConcreteClassB", << >>) }

\* No call.
NoInner == Call("", "", 0, "", << >>)

\* A thread outside the registry.
Idle ==
  [pc |-> "idle", call |-> Call("", "", 0, "", << >>), ws |-> << >>, it |-> 0,
   res |-> [kind |-> "void", by |-> ""], inner |-> NoInner]

Init ==
  /\ g_registry = [p \in Partitions |-> << >>]
  /\ g_mutex = "free"
  /\ last = NoCall
  /\ hash_impl = "identity"
  /\ key_type = "size_t"
  /\ relock_impl = "blocks"
  /\ default_constructible \in BOOLEAN
  /\ registered = [p \in Partitions |-> NoHistory]
  /\ nregs = 0
  /\ last = NoCall
  /\ threads = [t \in Threads |-> Idle]

\* What no call changes: the build's parameters.
Build == UNCHANGED <<hash_impl, key_type, relock_impl, default_constructible>>

-----------------------------------------------------------------------------
(* One call run from std::lock_guard to return, with no other thread in    *)
(* the registry. The caller makes a call, holds what it returned, and      *)
(* lets go of it before its next call.                                     *)

\* register_type<ConcreteType, Args...>(key)
register_type(T, key, Args) ==
  /\ g_mutex = "free"
  /\ last = NoCall
  /\ nregs < MaxRegs
  /\ is_related_v(T)
  /\ Args \in CtorSigs(T)
  /\ LET hash == g_hash_function(key)
         ws == register_type_writes(T, Args) IN
     /\ g_registry' = apply_writes(g_registry, hash, ws)
     /\ registered' = record_writes(registered, hash, ws)
     /\ last' = Returned("register_type", "key", ws[1].part, hash, T,
                         Report(<< >>, Void, 0))
  /\ nregs' = nregs + 1
  /\ UNCHANGED g_mutex
  /\ Build
  /\ UNCHANGED threads

\* register_type<ConcreteType, Args...>(): the type identity is the key.
register_type_by_identity(T, Args) ==
  /\ g_mutex = "free"
  /\ last = NoCall
  /\ nregs < MaxRegs
  /\ is_related_v(T)
  /\ Args \in CtorSigs(T)
  /\ LET hash == g_hash_function(key_type_of(hash_code(T)))
         ws == register_type_writes(T, Args) IN
     /\ g_registry' = apply_writes(g_registry, hash, ws)
     /\ registered' = record_writes(registered, hash, ws)
     /\ last' = Returned("register_type", "type", ws[1].part, hash, T,
                         Report(<< >>, Void, 0))
  /\ nregs' = nregs + 1
  /\ UNCHANGED g_mutex
  /\ Build
  /\ UNCHANGED threads

\* register_function(key, func) and register_function_impl
register_function(key, F) ==
  /\ g_mutex = "free"
  /\ last = NoCall
  /\ nregs < MaxRegs
  /\ function_is_related_v(F.ret)
  /\ LET hash == g_hash_function(key)
         ws == register_function_writes(F) IN
     /\ g_registry' = apply_writes(g_registry, hash, ws)
     /\ registered' = record_writes(registered, hash, ws)
     /\ last' = Returned("register_function", "key", ws[1].part, hash, F.tag,
                         Report(<< >>, Void, 0))
  /\ nregs' = nregs + 1
  /\ UNCHANGED g_mutex
  /\ Build
  /\ UNCHANGED threads

\* The four by-key calls: RetType is base_type, base_type*,
\* std::shared_ptr<base_type>, std::unique_ptr<base_type>.
by_key(op, RetType, key, Args) ==
  /\ g_mutex = "free"
  /\ last = NoCall
  /\ LET hash == g_hash_function(key)
         part == get_registry(RetType, Args)
         r == lookup_and_call(g_registry[part], hash) IN
     /\ last' = Returned(op, "key", part, hash, "", r)
     /\ g_registry' = [g_registry EXCEPT ![part] = r.m_data]
  /\ UNCHANGED <<g_mutex, registered, nregs>>
  /\ Build
  /\ UNCHANGED threads

make(key, Args) == by_key("make", "Value", key, Args)

make_ptr(key, Args) == by_key("make_ptr", "RawHandle", key, Args)

make_shared(key, Args) == by_key("make_shared", "SharedOwnership", key, Args)

make_unique(key, Args) == by_key("make_unique", "UniqueOwnership", key, Args)

\* The four by-type calls: the id is typeid(ConcreteType).hash_code().
by_type(op, RetType, T, Args) ==
  /\ g_mutex = "free"
  /\ last = NoCall
  /\ LET hash == hash_code(T)
         part == get_registry(RetType, Args)
         r == lookup_and_call(g_registry[part], hash) IN
     /\ last' = Returned(op, "type", part, hash, T,
                         IF RetType = "Value" THEN r ELSE static_cast(T, r))
     /\ g_registry' = [g_registry EXCEPT ![part] = r.m_data]
  /\ UNCHANGED <<g_mutex, registered, nregs>>
  /\ Build
  /\ UNCHANGED threads

\* make<ConcreteType>(args...) requires is_convertible_v<ConcreteType, base_type>.
make_T(T, Args) == is_convertible_v(T) /\ by_type("make", "Value", T, Args)

\* The static_cast of the other three compiles only for a subclass.
make_ptr_T(T, Args) == is_base_of_v(T) /\ by_type("make_ptr", "RawHandle", T, Args)

make_shared_T(T, Args) ==
  is_base_of_v(T) /\ by_type("make_shared", "SharedOwnership", T, Args)

make_unique_T(T, Args) ==
  is_base_of_v(T) /\ by_type("make_unique", "UniqueOwnership", T, Args)

\* try_make(args...)
try_make(Args) ==
  /\ g_mutex = "free"
  /\ last = NoCall
  /\ LET part == get_registry("Value", Args) IN
     last' = Returned("try_make", "all", part, 0, "", try_make_result(g_registry[part]))
  /\ UNCHANGED <<g_registry, g_mutex, registered, nregs>>
  /\ Build
  /\ UNCHANGED threads

\* try_make_ptr / try_make_shared / try_make_unique
try_ptr(op, RetType, Args) ==
  /\ g_mutex = "free"
  /\ last = NoCall
  /\ LET part == get_registry(RetType, Args) IN
     last' = Returned(op, "all", part, 0, "", try_make_ptr_result(g_registry[part]))
  /\ UNCHANGED <<g_registry, g_mutex, registered, nregs>>
  /\ Build
  /\ UNCHANGED threads

try_make_ptr(Args) == try_ptr("try_make_ptr", "RawHandle", Args)

try_make_shared(Args) == try_ptr("try_make_shared", "SharedOwnership", Args)

try_make_unique(Args) == try_ptr("try_make_unique", "UniqueOwnership", Args)

\* The caller is done with the result of its last call (the end of a test
\* section).
Return ==
  /\ last # NoCall
  /\ last' = NoCall
  /\ UNCHANGED <<g_registry, g_mutex, registered, nregs>>
  /\ Build
  /\ UNCHANGED threads

Next ==
  \/ \E T \in ConcreteTypes, key \in Keys, Args \in Signatures : register_type(T, key, Args)
  \/ \E T \in ConcreteTypes, Args \in Signatures : register_type_by_identity(T, Args)
  \/ \E key \in Keys, F \in Callables : register_function(key, F)
  \/ \E key \in Keys, Args \in ArgLists : make(key, Args)
  \/ \E key \in Keys, Args \in ArgLists : make_ptr(key, Args)
  \/ \E key \in Keys, Args \in ArgLists : make_shared(key, Args)
  \/ \E key \in Keys, Args \in ArgLists : make_unique(key, Args)
  \/ \E T \in ConcreteTypes, Args \in ArgLists : make_T(T, Args)
  \/ \E T \in ConcreteTypes, Args \in ArgLists : make_ptr_T(T, Args)
  \/ \E T \in ConcreteTypes, Args \in ArgLists : make_shared_T(T, Args)
  \/ \E T \in ConcreteTypes, Args \in ArgLists : make_unique_T(T, Args)
  \/ \E Args \in ArgLists : try_make(Args)
  \/ \E Args \in ArgLists : try_make_ptr(Args)
  \/ \E Args \in ArgLists : try_make_shared(Args)
  \/ \E Args \in ArgLists : try_make_unique(Args)
  \/ Return

Spec == Init /\ [][Next]_vars

-----------------------------------------------------------------------------
(* Registration and lookup by type identity, in every build: the key hasher *)
(* and the width of key_type are the build's.                               *)

InitIdentity ==
  /\ g_registry = [p \in Partitions |-> << >>]
  /\ g_mutex = "free"
  /\ hash_impl \in {"identity", "mixing"}
  /\ key_type \in {"size_t", "int"}
  /\ relock_impl = "blocks"
  /\ default_constructible \in BOOLEAN
  /\ registered = [p \in Partitions |-> NoHistory]
  /\ nregs = 0
  /\ last = NoCall
  /\ threads = [t \in Threads |-> Idle]

NextIdentity ==
  \/ \E T \in ConcreteTypes, Args \in Signatures : register_type_by_identity(T, Args)
  \/ \E T \in ConcreteTypes, Args \in ArgLists : make_T(T, Args)
  \/ \E T \in ConcreteTypes, Args \in ArgLists : make_ptr_T(T, Args)
  \/ \E T \in ConcreteTypes, Args \in ArgLists : make_shared_T(T, Args)
  \/ \E T \in ConcreteTypes, Args \in ArgLists : make_unique_T(T, Args)
  \/ Return

SpecIdentity == InitIdentity /\ [][NextIdentity]_vars

-----------------------------------------------------------------------------
(* Explicit callables of every kind of ReturnType beside constructors, and  *)
(* the trials over what they leave in the partitions.                       *)

NextCallables ==
  \/ \E T \in {"ConcreteClassA", "Thrower"}, key \in Keys, Args \in Signatures :
       register_type(T, key, Args)
  \/ \E key \in Keys, F \in AllCallables : register_function(key, F)
  \/ \E Args \in ArgLists : try_make(Args)
  \/ \E Args \in ArgLists : try_make_ptr(Args)
  \/ \E Args \in ArgLists : try_make_shared(Args)
  \/ \E Args \in ArgLists : try_make_unique(Args)
  \/ Return

SpecCallables == Init /\ [][NextCallables]_vars

-----------------------------------------------------------------------------
(* Threads: each call is a std::lock_guard on g_mutex, the body under the  *)
(* lock step by step, and the release when the guard goes out of scope.    *)

\* A bug a member function could have: no std::lock_guard, so it goes on
\* whoever owns the mutex.
can_lock_unguarded(mutex) == TRUE

\* std::mutex::lock returns once no thread owns the mutex.
can_lock(mutex) == mutex = "free"

\* A bug register_type could have: the std::lock_guard declared inside the
\* first of its blocks, so the mutex is free while the other blocks run.
guard_first_block_only(t, rest) == IF rest = << >> THEN t ELSE "free"

\* The owner of g_mutex after one assignment of a registration, rest being
\* the assignments still to make: the std::lock_guard is declared at
\* function scope and holds the mutex through all of them.
guard_after_write(t, rest) == t

\* A bug a member function could have: g_mutex.lock() and g_mutex.unlock()
\* called by hand, so an exception leaving the body skips the unlock.
unlock_on_return_only(t, res) ==
  IF res.kind \in {"RegistryMiss", "NoRegistryAvailable", "ProducerFailure",
                   "bad_function_call", "system_error"}
  THEN t
  ELSE "free"

\* ~lock_guard(): the owner of g_mutex after thread t leaves the scope of
\* its std::lock_guard with result res, by return or by exception.
unlock(t, res) == "free"

\* The id a call resolves: g_hash_function(key), or the type identity.
ResolvedId(c) ==
  CASE c.by = "key" -> g_hash_function(c.key)
    [] c.by = "type" /\ c.op \in RegisterOps -> g_hash_function(key_type_of(hash_code(c.T)))
    [] c.by = "type" /\ c.op \in MakeOps -> hash_code(c.T)
    [] OTHER -> 0

\* The callable of a register_function call.
CallableOf(c) == CHOOSE F \in AllCallables \cup ReentrantCallables : F.tag = c.T

\* The writes of a registration call.
WritesOf(c) ==
  IF c.op = "register_type" THEN register_type_writes(c.T, c.Args)
  ELSE register_function_writes(CallableOf(c))

\* The partition a make* or try_make* call reads.
PartitionOf(c) == get_registry(ShapeOf(c.op), c.Args)

\* A thread enters one of the static member functions.
Enter(t, c) ==
  /\ threads[t].pc = "idle"
  /\ IF c.op \in RegisterOps
     THEN /\ nregs < MaxRegs
          /\ nregs' = nregs + 1
          /\ c.op = "register_type" => is_related_v(c.T) /\ c.Args \in CtorSigs(c.T)
          /\ c.op = "register_function" => function_is_related_v(CallableOf(c).ret)
     ELSE UNCHANGED nregs
  /\ threads' = [threads EXCEPT ![t] = [Idle EXCEPT !.pc = "lock", !.call = c]]
  /\ UNCHANGED <<g_registry, g_mutex, registered, last>>
  /\ Build

\* std::lock_guard lock(g_mutex): the constructor returns holding the mutex.
Lock(t) ==
  /\ threads[t].pc = "lock"
  /\ can_lock(g_mutex)
  /\ g_mutex' = t
  /\ threads' = [threads EXCEPT ![t].pc = "body",
                                ![t].ws = IF threads[t].call.op \in RegisterOps
                                          THEN WritesOf(threads[t].call)
                                          ELSE << >>]
  /\ UNCHANGED <<g_registry, registered, nregs, last>>
  /\ Build

\* One get_registry<...>()[hash] = func of a registration.
RegWrite(t) ==
  LET th == threads[t]
      hash == ResolvedId(th.call) IN
  /\ th.pc = "body"
  /\ th.ws # << >>
  /\ g_registry' = write(g_registry, hash, Head(th.ws))
  /\ registered' = record_writes(registered, hash, <<Head(th.ws)>>)
  /\ threads' = [threads EXCEPT ![t].ws = Tail(th.ws),
                                ![t].pc = IF Tail(th.ws) = << >> THEN "unlock" ELSE "body"]
  /\ g_mutex' = guard_after_write(t, Tail(th.ws))
  /\ UNCHANGED <<nregs, last>>
  /\ Build

\* find and the end() test of a make*.
Find(t) ==
  LET th == threads[t]
      part == PartitionOf(th.call)
      l == lookup(g_registry[part], ResolvedId(th.call)) IN
  /\ th.pc = "body"
  /\ th.call.op \in MakeOps
  /\ g_registry' = [g_registry EXCEPT ![part] = l.m_data]
  /\ threads' = IF l.it = end(l.m_data)
                THEN [threads EXCEPT ![t].pc = "unlock", ![t].res = RegistryMiss]
                ELSE [threads EXCEPT ![t].pc = "invoke", ![t].it = l.it]
  /\ UNCHANGED <<g_mutex, registered, nregs, last>>
  /\ Build

\* it->second(std::forward<Args>(args)...) of a make*: the producer runs
\* to its result, or as far as its call into the registry.
InvokeFound(t) ==
  LET th == threads[t]
      part == PartitionOf(th.call)
      res == Invoke(g_registry[part][th.it].second) IN
  /\ th.pc = "invoke"
  /\ threads' = [threads EXCEPT ![t].pc = IF res.kind = "reenters" THEN "reenter"
                                          ELSE "unlock",
                                ![t].res = res]
  /\ UNCHANGED <<g_registry, g_mutex, registered, nregs, last>>
  /\ Build

\* The loop of a try_make* and what follows it.
TryAll(t) ==
  LET th == threads[t]
      part == PartitionOf(th.call) IN
  /\ th.pc = "body"
  /\ th.call.op \in TryOps
  /\ threads' = [threads EXCEPT ![t].pc = "unlock",
                                ![t].res = IF th.call.op = "try_make"
                                           THEN try_make_result(g_registry[part]).res
                                           ELSE try_make_ptr_result(g_registry[part]).res]
  /\ UNCHANGED <<g_registry, g_mutex, registered, nregs, last>>
  /\ Build

\* The lock_guard goes out of scope, by return or by exception: the mutex
\* is released and the call is over.
Unlock(t) ==
  /\ threads[t].pc = "unlock"
  /\ g_mutex' = unlock(t, threads[t].res)
  /\ threads' = [threads EXCEPT ![t] = Idle]
  /\ UNCHANGED <<g_registry, registered, nregs, last>>
  /\ Build

NextThreads ==
  \/ \E t \in Threads, c \in ThreadCalls : Enter(t, c)
  \/ \E t \in Threads : Lock(t)
  \/ \E t \in Threads : RegWrite(t)
  \/ \E t \in Threads : Find(t)
  \/ \E t \in Threads : InvokeFound(t)
  \/ \E t \in Threads : TryAll(t)
  \/ \E t \in Threads : Unlock(t)

SpecThreads == Init /\ [][NextThreads]_vars

\* What a thread does between acquiring g_mutex and releasing it.
UnderLock(t) == RegWrite(t) \/ Find(t) \/ InvokeFound(t) \/ TryAll(t) \/ Unlock(t)

\* A thread that holds the mutex keeps running, its producers terminate,
\* and a thread waiting in std::mutex::lock is not passed over for ever
\* when the mutex is released again and again.
SpecThreadsFair ==
  /\ Init
  /\ [][NextThreads]_vars
  /\ \A t \in Threads : WF_vars(UnderLock(t)) /\ SF_vars(Lock(t))

-----------------------------------------------------------------------------
(* A producer that calls a member function of the same static_factory: the *)
(* inner std::lock_guard locks a std::mutex its thread already owns, which  *)
(* is undefined behaviour, and does what the build's std::mutex does.       *)

\* The body of the producer enters member function c.
Reenter(t, c) ==
  /\ threads[t].pc = "reenter"
  /\ IF c.op \in RegisterOps
     THEN nregs < MaxRegs /\ nregs' = nregs + 1
     ELSE UNCHANGED nregs
  /\ threads' = [threads EXCEPT ![t].pc = "relock", ![t].inner = c]
  /\ UNCHANGED <<g_registry, g_mutex, registered, last>>
  /\ Build

\* std::lock_guard lock(g_mutex) of the inner call: the lock waits for the
\* mutex to be free, or fails with std::system_error
\* (resource_deadlock_would_occur), which leaves the producer and the outer
\* call, or returns at once.
Relock(t) ==
  /\ threads[t].pc = "relock"
  /\ CASE relock_impl = "blocks" ->
            /\ can_lock(g_mutex)
            /\ g_mutex' = t
            /\ threads' = [threads EXCEPT ![t].pc = "inner"]
       [] relock_impl = "throws" ->
            /\ threads' = [threads EXCEPT ![t].pc = "unlock",
                                          ![t].res = [kind |-> "system_error", by |-> ""],
                                          ![t].inner = NoInner]
            /\ UNCHANGED g_mutex
       [] relock_impl = "returns" ->
            /\ g_mutex' = t
            /\ threads' = [threads EXCEPT ![t].pc = "inner"]
  /\ UNCHANGED <<g_registry, registered, nregs, last>>
  /\ Build

\* The inner call runs from its std::lock_guard to its return, which
\* unlocks g_mutex, and the producer returns to the outer call: the result
\* of an inner make*, or its own object after an inner registration.
InnerBody(t) ==
  LET th == threads[t]
      c == th.inner
      hash == ResolvedId(c) IN
  /\ th.pc = "inner"
  /\ IF c.op \in RegisterOps
     THEN /\ g_registry' = apply_writes(g_registry, hash, WritesOf(c))
          /\ registered' = record_writes(registered, hash, WritesOf(c))
          /\ threads' = [threads EXCEPT ![t].pc = "unlock",
                                        ![t].res = [kind |-> "object", by |-> th.res.by],
                                        ![t].inner = NoInner]
          /\ g_mutex' = unlock(t, Void)
     ELSE LET r == lookup_and_call(g_registry[PartitionOf(c)], hash) IN
          /\ g_registry' = [g_registry EXCEPT ![PartitionOf(c)] = r.m_data]
          /\ UNCHANGED registered
          /\ threads' = IF r.res.kind = "reenters"
                        THEN [threads EXCEPT ![t].pc = "reenter", ![t].inner = NoInner]
                        ELSE [threads EXCEPT ![t].pc = "unlock", ![t].res = r.res,
                                             ![t].inner = NoInner]
          /\ g_mutex' = IF r.res.kind = "reenters" THEN g_mutex ELSE unlock(t, r.res)
  /\ UNCHANGED <<nregs, last>>
  /\ Build

InitReentry ==
  /\ g_registry = [p \in Partitions |-> << >>]
  /\ g_mutex = "free"
  /\ hash_impl = "identity"
  /\ key_type = "size_t"
  /\ relock_impl \in {"blocks", "throws", "returns"}
  /\ default_constructible \in BOOLEAN
  /\ registered = [p \in Partitions |-> NoHistory]
  /\ nregs = 0
  /\ last = NoCall
  /\ threads = [t \in Threads |-> Idle]

NextReentry ==
  \/ \E t \in Threads, c \in ReentryCalls : Enter(t, c)
  \/ \E t \in Threads : Lock(t)
  \/ \E t \in Threads : RegWrite(t)
  \/ \E t \in Threads : Find(t)
  \/ \E t \in Threads : InvokeFound(t)
  \/ \E t \in Threads, c \in InnerCalls : Reenter(t, c)
  \/ \E t \in Threads : Relock(t)
  \/ \E t \in Threads : InnerBody(t)
  \/ \E t \in Threads : Unlock(t)

SpecReentry == InitReentry /\ [][NextReentry]_vars

-----------------------------------------------------------------------------
(* Vocabulary of the properties.                                           *)

\* <<1, ..., n>>
UpTo(n) == [i \in 1..n |-> i]

\* A producer succeeds for a trial of the shape: it does not raise and, for
\* a handle, the handle is not null.
Succeeds(shape, func) ==
  IF shape = "Value" THEN ~Raised(Invoke(func)) ELSE Invoke(func).kind = "object"

\* The call that has just returned was a by-key or by-type make*.
DirectCall == last.op \in MakeOps /\ last.by \in {"key", "type"}

\* The call that has just returned was a try_make*.
TrialCall == last.op \in TryOps

-----------------------------------------------------------------------------
\* C1: ids are unique within every partition, and a by-key make* that
\* finds an id registered in its partition invokes exactly the producer of
\* the latest registration under that id and returns that producer's outcome.
C1_LastWriteWins ==
  /\ \A p \in Partitions : \A i, j \in 1..Len(g_registry[p]) :
       i # j => g_registry[p][i].first # g_registry[p][j].first
  /\ (last.op \in MakeOps /\ last.by = "key") =>
       LET h == registered[last.part]
           i == Position(h.order, last.id) IN
       i # 0 =>
         /\ Len(last.calls) = 1
         /\ g_registry[last.part][last.calls[1]].second = h.latest[i]
         /\ last.res = Invoke(h.latest[i])

\* Two register_type calls have written the same id of the raw pointer
\* partition (they left one entry there and none in a Value partition),
\* the later one for ConcreteClassB, and make_ptr of that key has returned
\* a ConcreteClassB.
C1_Witness ==
  /\ last.op = "make_ptr" /\ last.by = "key"
  /\ nregs = 2
  /\ \A sig \in Signatures : g_registry[<<"Value", sig>>] = << >>
  /\ Len(g_registry[last.part]) = 1
  /\ g_registry[last.part][1].first = last.id
  /\ registered[last.part].latest[1].tag = "ConcreteClassB"
  /\ last.res = [kind |-> "object", by |-> "ConcreteClassB"]

C3_FirstSuccessWins ==
  TrialCall =>
    LET m == g_registry[last.part]
        shape == ShapeOf(last.op) IN
    /\ [i \in 1..Len(m) |-> m[i].first] = registered[last.part].order
    /\ \E n \in 0..Len(m) : last.calls = UpTo(n)
    /\ \A k \in 1..Len(m) :
         (/\ Succeeds(shape, m[k].second)
          /\ \A j \in 1..(k - 1) : ~Succeeds(shape, m[j].second))
         => (/\ last.calls = UpTo(k)
             /\ last.src = k
             /\ last.res = Invoke(m[k].second))

\* Insertion order P1 fails, P2 succeeds, P3 succeeds: the trial has
\* returned P2's object after calling P1 and P2 only.
C3_Witness ==
  /\ TrialCall
  /\ LET m == g_registry[last.part]
         shape == ShapeOf(last.op) IN
     /\ Len(m) = 3
     /\ Raised(Invoke(m[1].second))
     /\ Succeeds(shape, m[2].second)
     /\ Succeeds(shape, m[3].second)
     /\ m[2].second.tag # m[3].second.tag
     /\ last.res = [kind |-> "object", by |-> m[2].second.tag]
     /\ last.calls = <<1, 2>>

\* C4: a try_make* over a non-empty partition whose producers all raise
\* attempts every entry, fails with the failure of the last entry in
\* insertion order, and leaves the registry as it was.
C4_AllFailRethrowsLast ==
  [][ LET m == g_registry[last'.part] IN
      (/\ last = NoCall
       /\ last'.op \in TryOps
       /\ Len(m) > 0
       /\ \A i \in 1..Len(m) : Raised(Invoke(m[i].second)))
      => (/\ last'.calls = UpTo(Len(m))
          /\ last'.src = Len(m)
          /\ last'.res = Invoke(m[Len(m)].second)
          /\ g_registry' = g_registry) ]_vars

\* A trial over two entries that both raise has failed with the second
\* one's failure.
C4_Witness ==
  /\ TrialCall
  /\ LET m == g_registry[last.part] IN
     /\ Len(m) = 2
     /\ \A i \in 1..2 : Raised(Invoke(m[i].second))
     /\ last.res.kind = "ProducerFailure"
     /\ last.src = 2

C6_ShapeIsolation ==
  /\ \A p \in Partitions : \A i \in 1..Len(g_registry[p]) :
       g_registry[p][i].second.ret = RetOf(p[1])
  /\ (last.op \in MakeOps \cup TryOps) =>
       /\ last.part[1] = ShapeOf(last.op)
       /\ \A i \in 1..Len(last.calls) :
            g_registry[last.part][last.calls[i]].second.ret = RetOf(ShapeOf(last.op))
  /\ DirectCall =>
       (Position(registered[<<ShapeOf(last.op), last.part[2]>>].order, last.id) = 0
          => last.res = RegistryMiss)

\* make_shared(key) has missed although the Value partition of the same
\* signature holds an entry under the same id.
C6_Witness ==
  /\ last.op = "make_shared" /\ last.by = "key"
  /\ last.res = RegistryMiss
  /\ Position(registered[<<"Value", last.part[2]>>].order, last.id) # 0

\* C7 as stated: after register_type<T>(key) of any subclass T, make_ptr,
\* make_shared and make_unique of that key and signature each find an entry
\* and run T's constructor, and make(key) runs T's constructor only if T is
\* value-convertible to base_type.
C7_AsStated ==
  (last.op = "register_type" /\ is_base_of_v(last.T)) =>
    LET sig == last.part[2] IN
    /\ \A S \in OwnershipShapes :
         LET m == g_registry[<<S, sig>>]
             r == lookup_and_call(m, last.id) IN
         /\ r.src # 0
         /\ m[r.src].second = Constructor(last.T, RetOf(S))
         /\ r.res = Invoke(Constructor(last.T, RetOf(S)))
    /\ LET m == g_registry[<<"Value", sig>>]
           r == lookup_and_call(m, last.id) IN
       (r.src # 0 /\ m[r.src].second = Constructor(last.T, "value"))
         => is_convertible_v(last.T)

\* C7 amended: register_type<T>(key) of a subclass T that is not
\* value-convertible to base_type makes make_ptr, make_shared and
\* make_unique of that key and signature find and run T's constructor, and
\* leaves the Value partition as it was; for a subclass that is also
\* value-convertible it makes make(key) find and run T's constructor and
\* leaves the three ownership partitions as they were.
C7_SubclassRegistration ==
  [][ (last = NoCall /\ last'.op = "register_type" /\ is_base_of_v(last'.T)) =>
      LET T == last'.T
          sig == last'.part[2]
          Finds(S) ==
            LET m == g_registry'[<<S, sig>>]
                r == lookup_and_call(m, last'.id) IN
            /\ r.src # 0
            /\ m[r.src].second = Constructor(T, RetOf(S))
            /\ r.res = Invoke(Constructor(T, RetOf(S))) IN
      IF is_convertible_v(T)
      THEN /\ Finds("Value")
           /\ \A S \in OwnershipShapes : g_registry'[<<S, sig>>] = g_registry[<<S, sig>>]
      ELSE /\ \A S \in OwnershipShapes : Finds(S)
           /\ g_registry'[<<"Value", sig>>] = g_registry[<<"Value", sig>>] ]_vars

\* register_type<ConcreteClassB>(key) has returned: the three ownership
\* partitions hold its producers under the id, and the Value partition of
\* that signature holds nothing under it.
C7_Witness ==
  /\ last.op = "register_type" /\ last.T = "ConcreteClassB"
  /\ \A S \in OwnershipShapes :
       LET m == g_registry[<<S, last.part[2]>>] IN
       /\ find(m, last.id) # end(m)
       /\ m[find(m, last.id)].second = Constructor("ConcreteClassB", RetOf(S))
  /\ LET v == g_registry[<<"Value", last.part[2]>>] IN find(v, last.id) = end(v)

\* C8: a registration under an id changes, in the partitions its
\* classification selects, the entry of that id only (replaced in place, or
\* appended if new); every entry under another id keeps its position and
\* its producer, every lookup of another id has the outcome it had, and
\* every partition not selected is as it was.
C8_RegistrationFrame ==
  [][ (last = NoCall /\ last'.op \in RegisterOps) =>
      LET id == last'.id
          sig == last'.part[2]
          Selected ==
            IF last'.op = "register_function" THEN {last'.part}
            ELSE IF is_convertible_v(last'.T) THEN {<<"Value", sig>>}
            ELSE {<<S, sig>> : S \in OwnershipShapes} IN
      \A p \in Partitions :
        LET old == g_registry[p]
            new == g_registry'[p] IN
        /\ p \notin Selected => new = old
        /\ Len(new) \in {Len(old), Len(old) + 1}
        /\ \A i \in 1..Len(old) : new[i].first = old[i].first
        /\ \A i \in 1..Len(old) : old[i].first # id => new[i] = old[i]
        /\ Len(new) = Len(old) + 1 => new[Len(new)].first = id
        /\ \A other \in AllIds \ {id} :
             lookup_and_call(new, other).res = lookup_and_call(old, other).res ]_vars

\* ConcreteClassA has just been registered under an id that was in use
\* before the id ConcreteClassB sits under (it is the first of the two
\* entries): make_ptr of the two keys yields an A and a B.
C8_Witness ==
  /\ last.op = "register_type" /\ last.T = "ConcreteClassA"
  /\ LET m == g_registry[<<"RawHandle", << >>>>] IN
     /\ Len(m) = 2
     /\ m[1].first = last.id
     /\ lookup_and_call(m, m[1].first).res = [kind |-> "object", by |-> "ConcreteClassA"]
     /\ lookup_and_call(m, m[2].first).res = [kind |-> "object", by |-> "ConcreteClassB"]

\* C10: when the producer a make* (by key or by type) finds raises, the
\* call invokes that producer only, fails with that very failure, and
\* leaves the registry as it was.
C10_ProducerFailurePropagates ==
  [][ LET m == g_registry[last'.part]
          it == find(m, last'.id) IN
      (/\ last = NoCall
       /\ last'.op \in MakeOps
       /\ it # end(m)
       /\ Raised(Invoke(m[it].second)))
      => (/\ last'.calls = <<it>>
          /\ last'.src = it
          /\ last'.res = Invoke(m[it].second)
          /\ g_registry' = g_registry) ]_vars

\* make_unique<Thrower>() has failed with the failure of Thrower's
\* constructor.
C10_Witness ==
  /\ last.op = "make_unique" /\ last.by = "type" /\ last.T = "Thrower"
  /\ last.res = [kind |-> "ProducerFailure", by |-> "Thrower"]

\* C11 as stated: after register_type<T, Args...>() with no key, a lookup
\* by the type identity of T finds, in every partition the registration
\* wrote, the producer it stored there: the id stored (the key hasher
\* applied to the identity passed as key) is the id looked up (the identity
\* itself).
C11_AsStated ==
  (last.op = "register_type" /\ last.by = "type") =>
    LET ws == register_type_writes(last.T, last.part[2]) IN
    /\ last.id = hash_code(last.T)
    /\ \A i \in 1..Len(ws) :
         LET m == g_registry[ws[i].part]
             r == lookup_and_call(m, hash_code(last.T)) IN
         /\ r.src # 0
         /\ m[r.src].second = ws[i].func

\* C12 as stated: register_function accepts a callable whose ReturnType is
\* a shared or unique owner of a subclass of base_type (the call compiles,
\* so it can be made whenever a registration can), and stores it in the
\* matching partition only: make_shared(key) / make_unique(key) finds it,
\* and the other ownership partitions are as they were.
C12_AsStated ==
  /\ (g_mutex = "free" /\ last = NoCall /\ nregs < MaxRegs) =>
       \A key \in Keys : \A F \in AllCallables :
         F.ret \in {"shared_ptr", "unique_ptr"} => ENABLED register_function(key, F)
  /\ (last.op = "register_function"
       /\ CallableOf(last).ret \in {"shared_ptr", "unique_ptr"}) =>
       LET F == CallableOf(last)
           shape == IF F.ret = "shared_ptr" THEN "SharedOwnership" ELSE "UniqueOwnership"
           m == g_registry[<<shape, F.sig>>]
           r == lookup_and_call(m, last.id) IN
       /\ last.part = <<shape, F.sig>>
       /\ r.src # 0
       /\ m[r.src].second.tag = F.tag
       /\ \A S \in OwnershipShapes \ {shape} :
            LET o == g_registry[<<S, F.sig>>] IN
            find(o, last.id) # end(o) => o[find(o, last.id)].second.tag # F.tag

\* The callable's ReturnType decides the shape: a value goes to Value, a
\* subclass of base_type that converts to base_type* goes to RawHandle.
ShapeChosen(F) == IF F.ret = "value" THEN "Value" ELSE "RawHandle"

\* C13: register_function(key, callable) writes the entry of the id in
\* exactly one partition, the one of the shape its ReturnType selects and
\* of its (decayed) argument list; every other partition keeps its contents.
C13_OnePartition ==
  [][ (last = NoCall /\ last'.op = "register_function") =>
      LET F == CallableOf(last')
          p == <<ShapeChosen(F), F.sig>>
          m == g_registry'[p]
          it == find(m, last'.id) IN
      /\ last'.part = p
      /\ it # end(m)
      /\ m[it].second = Stored(F, p[1])
      /\ \A q \in Partitions \ {p} : g_registry'[q] = g_registry[q] ]_vars

\* named_cat, which takes an int, has just been registered: the Value
\* partition of signature (int) holds it, and the raw pointer partition of
\* no arguments still holds the constructor registered under the same id.
C13_Witness ==
  /\ last.op = "register_function" /\ last.T = "named_cat"
  /\ LET v == g_registry[<<"Value", <<"int">>>>]
         h == g_registry[<<"RawHandle", << >>>>] IN
     /\ find(v, last.id) # end(v)
     /\ v[find(v, last.id)].second.tag = "named_cat"
     /\ find(h, last.id) # end(h)
     /\ h[find(h, last.id)].second.tag = "ConcreteClassA"
  /\ g_registry[<<"Value", << >>>>] = << >>

\* C15: every partition lists its ids in the order of their first
\* registration, each with the producer of its latest registration (a
\* re-registration replaces the producer where the entry is), and a
\* try_make* over a partition that is not empty attempts the entry of the
\* first-registered id first.
C15_ReRegistrationKeepsPosition ==
  /\ \A p \in Partitions :
       LET m == g_registry[p]
           h == registered[p] IN
       /\ [i \in 1..Len(m) |-> m[i].first] = h.order
       /\ [i \in 1..Len(m) |-> m[i].second] = h.latest
  /\ (TrialCall /\ g_registry[last.part] # << >>) =>
       /\ last.calls # << >>
       /\ last.calls[1] = 1
       /\ g_registry[last.part][1].first = registered[last.part].order[1]

\* The third registration has put ConcreteClassB under the id of the first
\* of two entries, ConcreteClassA being the second: the id is still first,
\* and try_make_ptr yields a ConcreteClassB from the first entry.
C15_Witness ==
  /\ last.op = "register_type" /\ last.T = "ConcreteClassB"
  /\ nregs = 3
  /\ LET m == g_registry[<<"RawHandle", << >>>>] IN
     /\ Len(m) = 2
     /\ m[1].first = last.id
     /\ m[2].second.tag = "ConcreteClassA"
     /\ try_make_ptr_result(m).src = 1
     /\ try_make_ptr_result(m).res = [kind |-> "object", by |-> "ConcreteClassB"]

HandleTrial == last.op \in {"try_make_ptr", "try_make_shared", "try_make_unique"}

\* C14: in try_make_ptr / try_make_shared / try_make_unique a producer
\* that returns a null handle is passed over: it is never the source of the
\* result and the loop goes on to the next entry; when some producer of the
\* partition returns a handle that is not null, the call returns the handle
\* of the first such producer.
C14_NullIsNotSuccess ==
  HandleTrial =>
    LET m == g_registry[last.part]
        NonNull(i) == Invoke(m[i].second).kind = "object" IN
    /\ \A i \in 1..Len(m) :
         (Invoke(m[i].second).kind = "nullptr" /\ i \in 1..Len(last.calls)) =>
           /\ last.src # i
           /\ i < Len(m) => Len(last.calls) > i
    /\ \A k \in 1..Len(m) :
         (NonNull(k) /\ \A j \in 1..(k - 1) : ~NonNull(j)) =>
           /\ last.res = Invoke(m[k].second)
           /\ last.res.kind = "object"
           /\ last.src = k
           /\ last.calls = UpTo(k)

\* try_make_ptr over a producer that returns null followed by the
\* constructor of ConcreteClassA has called both and returned the
\* ConcreteClassA.
C14_Witness ==
  /\ last.op = "try_make_ptr"
  /\ LET m == g_registry[last.part] IN
     /\ Len(m) = 2
     /\ Invoke(m[1].second).kind = "nullptr"
     /\ m[2].second.tag = "ConcreteClassA"
  /\ last.calls = <<1, 2>>
  /\ last.res = [kind |-> "object", by |-> "ConcreteClassA"]

\* C20: when no producer of a non-empty partition yields a handle that is
\* not null, try_make_ptr / try_make_shared / try_make_unique attempts
\* every entry; if some producer raised it fails with the failure of the
\* last producer that raised, whatever the producers after it returned; if
\* none raised it returns a null handle.
C20_NoHandleOutcome ==
  HandleTrial =>
    LET m == g_registry[last.part]
        Raisers == {i \in 1..Len(m) : Raised(Invoke(m[i].second))} IN
    (Len(m) > 0 /\ \A i \in 1..Len(m) : Invoke(m[i].second).kind # "object") =>
      /\ last.calls = UpTo(Len(m))
      /\ IF Raisers # {}
         THEN LET k == CHOOSE i \in Raisers : \A j \in Raisers : j <= i IN
              /\ last.res = Invoke(m[k].second)
              /\ last.src = k
         ELSE /\ last.res = [kind |-> "nullptr", by |-> ""]
              /\ last.src = 0

\* try_make_ptr over Thrower's constructor followed by a producer that
\* returns null has called both and failed with Thrower's failure.
C20_Witness ==
  /\ last.op = "try_make_ptr"
  /\ LET m == g_registry[last.part] IN
     /\ Len(m) = 2
     /\ m[1].second.tag = "Thrower"
     /\ Invoke(m[2].second).kind = "nullptr"
  /\ last.calls = <<1, 2>>
  /\ last.src = 1
  /\ last.res = [kind |-> "ProducerFailure", by |-> "Thrower"]

Reading(t) ==
  /\ threads[t].pc \in {"body", "invoke"}
  /\ threads[t].call.op \in MakeOps \cup TryOps

\* C19: whenever a thread reads the registry in a make* or try_make*, no
\* register_type is part-way through its three assignments, and the
\* RawHandle, SharedOwnership and UniqueOwnership partitions of every
\* signature agree: each id is in all three or in none, at the same
\* position, bound to the constructor of the same concrete type.
C19_RegistrationAtomic ==
  \A t \in Threads :
    Reading(t) =>
      /\ \A u \in Threads : threads[u].ws = << >>
      /\ \A sig \in Signatures : \A S1, S2 \in OwnershipShapes :
           LET a == g_registry[<<S1, sig>>]
               b == g_registry[<<S2, sig>>] IN
           /\ Len(a) = Len(b)
           /\ \A i \in 1..Len(a) :
                /\ a[i].first = b[i].first
                /\ a[i].second.tag = b[i].second.tag

\* register_type<ConcreteClassB>(key) has replaced ConcreteClassA in the
\* raw pointer partition and not yet in the other two, while the other
\* thread waits for the mutex to call make_shared of that key.
C19_Witness ==
  \E t, u \in Threads :
    /\ threads[t].pc = "lock" /\ threads[t].call.op = "make_shared"
    /\ threads[u].pc = "body" /\ threads[u].call.op = "register_type"
    /\ threads[u].call.T = "ConcreteClassB"
    /\ Len(threads[u].ws) = 2
    /\ g_registry[<<"RawHandle", << >>>>] # << >>
    /\ g_registry[<<"RawHandle", << >>>>][1].second.tag = "ConcreteClassB"
    /\ g_registry[<<"SharedOwnership", << >>>>] # << >>
    /\ g_registry[<<"SharedOwnership", << >>>>][1].second.tag = "ConcreteClassA"

\* The thread is between acquiring g_mutex and releasing it.
InRegistry(t) ==
  threads[t].pc \in {"body", "invoke", "reenter", "relock", "inner", "unlock"}

\* C9: at most one thread at a time is between acquiring and releasing
\* g_mutex, whatever the calls and their shapes and signatures, and a thread
\* that is there (writing an entry, looking one up, invoking a producer)
\* owns the mutex.
C9_MutualExclusion ==
  /\ \A t, u \in Threads : (InRegistry(t) /\ InRegistry(u)) => t = u
  /\ \A t \in Threads : InRegistry(t) => g_mutex = t

\* One thread is about to invoke the producer make_ptr found while the
\* other waits for the mutex in a register_type that targets the Value
\* partition.
C9_Witness ==
  \E t, u \in Threads :
    /\ threads[t].pc = "invoke" /\ threads[t].call.op = "make_ptr"
    /\ threads[u].pc = "lock"
    /\ threads[u].call.op = "register_type" /\ threads[u].call.T = "Sliced"

====
